---- MODULE Spec2Model ----
(***************************************************************************)
(* Model of src/server.js: the POST /api/signoff handler and the PDF       *)
(* builder buildPdfBuffer (second variant in the file, lines 52-223).      *)
(*                                                                         *)
(* Lengths are in thousandths of a PDF point, so that the line heights of  *)
(* Helvetica (1.156 x font size) are integers: 40 pt = 40000.              *)
(* A text value is modelled by the number of lines it is laid out on.      *)
(***************************************************************************)
EXTENDS Integers, Sequences, FiniteSets, TLC

VARIABLES
  payload,    \* req.body: the submission, never modified
  pc,         \* position of the handler / of buildPdfBuffer
  doc,        \* the PDFDocument's cursor: [x, y, page]
  startY,     \* const startY (line 119)
  loop,       \* locals of the photo loop: [i, x, rowY, col]
  out,        \* what has been placed on the document so far
  pdfBuffer,  \* outcome of buildPdfBuffer: "none", "building", "ok", "rejected"
  toEmail,    \* const toEmail (line 199): "unread", "none", "addr"
  mail,       \* outcomes of the transporter.sendMail calls, in order
  responses   \* responses written to res, in order

vars == <<payload, pc, doc, startY, loop, out, pdfBuffer, toEmail, mail, responses>>

----------------------------------------------------------------------------
(* Bounds of the model *)

MaxPhotos == 13        \* longest photos list
MaxBad == 2            \* most entries of a long photos list that fail to decode
MaxShortNotes == 2     \* most lines of notes in a payload with a long photos list
MaxPhotosLong == 1     \* longest photos list in a payload with long notes
MaxNotesLines == 50    \* most lines of notes
MaxWrap == 1           \* most extra (wrapped) lines in one metadata column

(* Program constants *)

PageH == 792000        \* doc.page.height of new PDFDocument (letter)
Margin == 40000        \* { margin: 40 }
TitleLineH == 23120    \* line height at fontSize(20)
LineH == 11560         \* line height at fontSize(10)
CaptionLineH == 10404  \* line height at fontSize(9)
colGap == 280000
sigW == 380000
sigH == 120000
cellW == 160000
cellH == 120000
gap == 12000
CaptionDrop == 2000    \* rowY + cellH + 2
MaxVisible == 12       \* photos.slice(0, 12)
GridCols == 3          \* col === 3

NULL == "null"

\* doc.page.height - doc.page.margins.bottom; also pdfkit's page.maxY()
MaxY == PageH - Margin

Min(a, b) == IF a < b THEN a ELSE b

----------------------------------------------------------------------------
(* Inputs *)

\* What a dataUrl field can hold, as far as dataUrlToBuffer tells them apart
SigKinds == {"undefined", "nomatch", "dataurl"}
PhotoKinds == {"nomatch", "dataurl"}

\* dataUrlToBuffer: null for a falsy or non-string value and for a string that
\* does not match /^data:(.+?);base64,(.+)$/, a Buffer otherwise
dataUrlToBuffer(dataUrl) ==
  IF dataUrl = "undefined" THEN NULL
  ELSE IF dataUrl # "dataurl" THEN NULL
  ELSE "buffer"

PhotoLists(maxLen) == UNION {[1..n -> PhotoKinds] : n \in 0..maxLen}

BadCount(ps) == Cardinality({k \in DOMAIN ps : dataUrlToBuffer(ps[k]) = NULL})

\* Payloads with many photos and short notes
GridPayloads ==
  [toEmail : BOOLEAN, leftExtra : {0}, rightExtra : {0},
   notesLines : 1..MaxShortNotes, signatureDataUrl : SigKinds,
   photos : {ps \in PhotoLists(MaxPhotos) :
               BadCount(ps) <= MaxBad}]

\* Payloads with long text and few photos
LongPayloads ==
  [toEmail : BOOLEAN, leftExtra : 0..MaxWrap, rightExtra : 0..MaxWrap,
   notesLines : 1..MaxNotesLines, signatureDataUrl : SigKinds,
   photos : PhotoLists(MaxPhotosLong)]

----------------------------------------------------------------------------
(* pdfkit cursor primitives, as the calls of buildPdfBuffer use them *)

\* new PDFDocument({ margin: 40 }): cursor at the top-left margin of page 1
NewDocument == [x |-> Margin, y |-> Margin, page |-> 1]

\* doc.addPage(): a new page, the cursor back at its top-left margin
addPage(c) == [x |-> Margin, y |-> Margin, page |-> c.page + 1]

\* A line of text that does not fit above the bottom margin continues on a new
\* page, at the top margin and at the x the text started at
LineStart(c, lh) ==
  IF c.y + lh > MaxY THEN [addPage(c) EXCEPT !.x = c.x] ELSE c

\* How many lines of height lh fit between the cursor and the bottom margin,
\* and on a fresh page
LinesLeft(c, lh) == IF c.y + lh > MaxY THEN 0 ELSE (MaxY - c.y) \div lh
LinesPerPage(lh) == (MaxY - Margin) \div lh

\* doc.text(...) of n lines of height lh at the cursor c: the cursor moves down
\* one line per line laid out and keeps its x; each line is laid out at
\* LineStart of the cursor the line before it left
text(c, n, lh) ==
  IF n <= LinesLeft(c, lh) THEN [c EXCEPT !.y = @ + n * lh]
  ELSE LET rest == n - LinesLeft(c, lh)
           newPages == (rest + LinesPerPage(lh) - 1) \div LinesPerPage(lh)
           last == rest - (newPages - 1) * LinesPerPage(lh)
       IN [x |-> c.x, y |-> Margin + last * lh, page |-> c.page + newPages]

\* doc.moveDown(k): k line heights down, given here as the distance
moveDown(c, d) == [c EXCEPT !.y = @ + d]

----------------------------------------------------------------------------
(* State after the request has arrived and the handler is about to run *)

NoOutput ==
  [rightColY |-> 0, leftBottom |-> 0, rightBottom |-> 0,
   notes |-> <<>>, sig |-> <<>>, heading |-> <<>>, gridStart |-> <<>>,
   cells |-> <<>>, images |-> 0, addPages |-> 0]

InitWith(payloads) ==
  /\ payload \in payloads
  /\ pc = "received"
  /\ doc = NewDocument
  /\ startY = 0
  /\ loop = [i |-> 1, x |-> 0, rowY |-> 0, col |-> 0]
  /\ out = NoOutput
  /\ pdfBuffer = "none"
  /\ toEmail = "unread"
  /\ mail = <<>>
  /\ responses = <<>>

Init == InitWith(GridPayloads \cup LongPayloads)

----------------------------------------------------------------------------
(* buildPdfBuffer, section by section *)

BuildPcs == {"header", "leftcol", "rightcol", "notes", "signature", "photos",
             "grid", "end"}

\* Line 198: the handler calls buildPdfBuffer(req.body || {}) first of all
CallBuild ==
  /\ pc = "received"
  /\ pc' = "header"
  /\ pdfBuffer' = "building"
  /\ doc' = NewDocument
  /\ UNCHANGED <<payload, startY, loop, out, toEmail, mail, responses>>

\* Lines 104-109: title, moveDown(0.5) at size 20, the Generated stamp at size
\* 10, moveDown()
HeaderCursor(c) ==
  moveDown(text(moveDown(text(c, 1, TitleLineH), TitleLineH \div 2), 1, LineH), LineH)

Header ==
  /\ pc = "header"
  /\ doc' = HeaderCursor(doc)
  /\ pc' = "leftcol"
  /\ UNCHANGED <<payload, startY, loop, out, pdfBuffer, toEmail, mail, responses>>

\* Lines 112-125: leftX = doc.x, startY = doc.y, then six line(label, val) calls
\* at x = leftX; a value wider than 250 wraps onto extra lines
leftX == Margin

LeftColumn ==
  /\ pc = "leftcol"
  /\ startY' = doc.y
  /\ doc' = text([doc EXCEPT !.x = leftX], 6 + payload.leftExtra, LineH)
  /\ out' = [out EXCEPT !.leftBottom = doc'.y]
  /\ pc' = "rightcol"
  /\ UNCHANGED <<payload, loop, pdfBuffer, toEmail, mail, responses>>

\* Line 129: line('Carrier', carrier, leftX + colGap, y) with y = startY sets
\* doc.y = y and writes at x = leftX + colGap
RightColumnStart(c, y) == LineStart([c EXCEPT !.x = leftX + colGap, !.y = y], LineH)

\* Lines 128-135: the five lines of the right column, then doc.moveDown()
RightColumn ==
  /\ pc = "rightcol"
  /\ LET first == RightColumnStart(doc, startY)
         after == text(first, 5 + payload.rightExtra, LineH)
     IN /\ out' = [out EXCEPT !.rightColY = first.y, !.rightBottom = after.y]
        /\ doc' = moveDown(after, LineH)
  /\ pc' = "notes"
  /\ UNCHANGED <<payload, startY, loop, pdfBuffer, toEmail, mail, responses>>

\* Lines 138-140: heading and notes text at the cursor, then doc.moveDown()
Notes ==
  /\ pc = "notes"
  /\ LET head == LineStart(doc, LineH)
     IN /\ out' = [out EXCEPT !.notes = <<head>>]
        /\ doc' = moveDown(text(text(doc, 1, LineH), payload.notesLines, LineH), LineH)
  /\ pc' = "signature"
  /\ UNCHANGED <<payload, startY, loop, pdfBuffer, toEmail, mail, responses>>

\* moveDown(0.3) and moveDown(sigH / 14) at size 10, as distances
SigHeadGap == (3 * LineH) \div 10
SigBlockDrop == (sigH * LineH) \div 14000

\* Line 148: where the signature border and image are put: at the cursor left
\* by the heading and moveDown(0.3)
SignatureAt(c) == moveDown(text(c, 1, LineH), SigHeadGap)

\* Mutant of Signature: the block is drawn whether or not a signature decoded
SignatureAlways ==
  /\ pc = "signature"
  /\ LET at == SignatureAt(doc)
     IN /\ out' = [out EXCEPT !.sig = <<at>>, !.images = @ + 1]
        /\ doc' = moveDown(moveDown(at, SigBlockDrop), LineH)
  /\ pc' = "photos"
  /\ UNCHANGED <<payload, startY, loop, pdfBuffer, toEmail, mail, responses>>

\* Lines 143-156
Signature ==
  /\ pc = "signature"
  /\ IF dataUrlToBuffer(payload.signatureDataUrl) # NULL
     THEN LET at == SignatureAt(doc)
          IN /\ out' = [out EXCEPT !.sig = <<at>>, !.images = @ + 1]
             /\ doc' = moveDown(moveDown(at, SigBlockDrop), LineH)
     ELSE UNCHANGED <<doc, out>>
  /\ pc' = "photos"
  /\ UNCHANGED <<payload, startY, loop, pdfBuffer, toEmail, mail, responses>>

\* Mutant of validPhotos: the list is not sliced
allPhotos(photos) == photos

\* Line 159: photos.slice(0, 12)
validPhotos(photos) == SubSeq(photos, 1, Min(Len(photos), MaxVisible))

\* Line 160: the heading is written when the sliced list has entries
HeadingWanted(photos) == Len(validPhotos(photos)) > 0

\* Lines 161-165: heading, moveDown(0.5), then x = doc.x, rowY = doc.y, col = 0
PhotosHeading ==
  /\ pc = "photos"
  /\ IF HeadingWanted(payload.photos)
     THEN LET head == LineStart(doc, LineH)
              c == moveDown(text(doc, 1, LineH), LineH \div 2)
          IN /\ doc' = c
             /\ loop' = [i |-> 1, x |-> c.x, rowY |-> c.y, col |-> 0]
             /\ out' = [out EXCEPT !.heading = <<head>>,
                                   !.gridStart = <<[doc |-> c, x |-> c.x, rowY |-> c.y]>>]
             /\ pc' = "grid"
     ELSE /\ pc' = "end"
          /\ UNCHANGED <<doc, loop, out>>
  /\ UNCHANGED <<payload, startY, pdfBuffer, toEmail, mail, responses>>

----------------------------------------------------------------------------
(* One iteration of the photo loop, on s = [doc, x, rowY, col, cells, images, *)
(* addPages]                                                                 *)

\* Line 172: if (col === 3) { col = 0; x = doc.x; rowY += cellH + gap; }
NewRow(s) ==
  IF s.col = GridCols
  THEN [s EXCEPT !.col = 0, !.x = s.doc.x, !.rowY = @ + cellH + gap]
  ELSE s

\* Mutant of TooLow: the height of the cell is left out of the test
TooLowCursorOnly(rowY) == rowY > MaxY

\* Line 174: rowY + cellH > doc.page.height - doc.page.margins.bottom
TooLow(rowY) == rowY + cellH > MaxY

\* Lines 174-176: doc.addPage(); rowY = doc.y; x = doc.x; col = 0
NewPage(s) ==
  IF TooLow(s.rowY)
  THEN LET c == addPage(s.doc)
       IN [s EXCEPT !.doc = c, !.rowY = c.y, !.x = c.x, !.col = 0,
                    !.addPages = @ + 1]
  ELSE s

\* Lines 179-187: border, image, caption below the cell, then x += cellW + gap
\* (line 182 carries a stray ']' after valign: 'center'; it is read as the
\* doc.image(b, x, rowY, { fit, align, valign }) call it stands for, whose
\* exception is caught and changes nothing)
DrawCell(s, i) ==
  [s EXCEPT
     !.cells = Append(@, [i |-> i, page |-> s.doc.page, x |-> s.x, y |-> s.rowY,
                          col |-> s.col]),
     !.images = @ + 1,
     !.doc = text([s.doc EXCEPT !.x = s.x, !.y = s.rowY + cellH + CaptionDrop],
                  1, CaptionLineH),
     !.x = @ + cellW + gap,
     !.col = @ + 1]

\* Mutant of PhotoStep: an entry that does not decode still takes its slot
PhotoStepTakesSlot(s, i, dataUrl) ==
  IF dataUrlToBuffer(dataUrl) = NULL
  THEN LET t == NewPage(NewRow(s))
       IN [t EXCEPT !.x = @ + cellW + gap, !.col = @ + 1]
  ELSE DrawCell(NewPage(NewRow(s)), i)

\* Lines 168-187: an entry that does not decode is passed over (continue)
PhotoStep(s, i, dataUrl) ==
  IF dataUrlToBuffer(dataUrl) = NULL THEN s
  ELSE DrawCell(NewPage(NewRow(s)), i)

GridState ==
  [doc |-> doc, x |-> loop.x, rowY |-> loop.rowY, col |-> loop.col,
   cells |-> out.cells, images |-> out.images, addPages |-> out.addPages]

\* Lines 167-188: the body of for (const p of validPhotos), for entry loop.i
GridIteration ==
  /\ pc = "grid"
  /\ loop.i <= Len(validPhotos(payload.photos))
  /\ LET s == PhotoStep(GridState, loop.i, validPhotos(payload.photos)[loop.i])
     IN /\ doc' = s.doc
        /\ loop' = [i |-> loop.i + 1, x |-> s.x, rowY |-> s.rowY, col |-> s.col]
        /\ out' = [out EXCEPT !.cells = s.cells, !.images = s.images,
                              !.addPages = s.addPages]
  /\ UNCHANGED <<payload, pc, startY, pdfBuffer, toEmail, mail, responses>>

\* The loop has gone through validPhotos
GridDone ==
  /\ pc = "grid"
  /\ loop.i > Len(validPhotos(payload.photos))
  /\ pc' = "end"
  /\ UNCHANGED <<payload, doc, startY, loop, out, pdfBuffer, toEmail, mail, responses>>

\* Lines 191, 100: doc.end() and the 'end' event resolve the promise
EndDocument ==
  /\ pc = "end"
  /\ pdfBuffer' = "ok"
  /\ pc' = "recipient"
  /\ UNCHANGED <<payload, doc, startY, loop, out, toEmail, mail, responses>>

\* Lines 96, 101: an exception in the executor or an 'error' event of the
\* document rejects the promise; the handler's await throws into its catch
BuildRejects ==
  /\ pc \in BuildPcs
  /\ pdfBuffer' = "rejected"
  /\ pc' = "catch"
  /\ UNCHANGED <<payload, doc, startY, loop, out, toEmail, mail, responses>>

----------------------------------------------------------------------------
(* The handler of POST /api/signoff after the build *)

\* Line 199: req.body?.toEmail || process.env.TO_EMAIL
Recipient(bodyToEmail, TO_EMAIL) ==
  IF bodyToEmail \/ TO_EMAIL THEN "addr" ELSE "none"

MissingRecipientResponse == [status |-> 400, ok |-> FALSE]
SuccessResponse == [status |-> 200, ok |-> TRUE]
ServerErrorResponse == [status |-> 500, ok |-> FALSE]

\* Lines 199-203: resolve the recipient; without one, answer 400 and return
CheckRecipient ==
  /\ pc = "recipient"
  /\ \E TO_EMAIL \in BOOLEAN :
       /\ toEmail' = Recipient(payload.toEmail, TO_EMAIL)
       /\ IF toEmail' = "none"
          THEN /\ responses' = Append(responses, MissingRecipientResponse)
               /\ pc' = "done"
          ELSE /\ pc' = "send"
               /\ UNCHANGED responses
  /\ UNCHANGED <<payload, doc, startY, loop, out, pdfBuffer, mail>>

\* Lines 205-212: await transporter.sendMail(...), which resolves or rejects
SendMail ==
  /\ pc = "send"
  /\ \E outcome \in {"delivered", "failed"} :
       /\ mail' = Append(mail, outcome)
       /\ pc' = IF outcome = "delivered" THEN "respond" ELSE "catch"
  /\ UNCHANGED <<payload, doc, startY, loop, out, pdfBuffer, toEmail, responses>>

\* Line 214: res.json({ ok: true, id })
Respond ==
  /\ pc = "respond"
  /\ responses' = Append(responses, SuccessResponse)
  /\ pc' = "done"
  /\ UNCHANGED <<payload, doc, startY, loop, out, pdfBuffer, toEmail, mail>>

\* Mutant of Catch: the error is swallowed and the caller is told ok
CatchSwallows ==
  /\ pc = "catch"
  /\ responses' = Append(responses, SuccessResponse)
  /\ pc' = "done"
  /\ UNCHANGED <<payload, doc, startY, loop, out, pdfBuffer, toEmail, mail>>

\* Lines 215-218: catch (err) { res.status(500).json({ ok: false, ... }) }
Catch ==
  /\ pc = "catch"
  /\ responses' = Append(responses, ServerErrorResponse)
  /\ pc' = "done"
  /\ UNCHANGED <<payload, doc, startY, loop, out, pdfBuffer, toEmail, mail>>

Next ==
  \/ CallBuild
  \/ Header
  \/ LeftColumn
  \/ RightColumn
  \/ Notes
  \/ Signature
  \/ PhotosHeading
  \/ GridIteration
  \/ GridDone
  \/ EndDocument
  \/ BuildRejects
  \/ CheckRecipient
  \/ SendMail
  \/ Respond
  \/ Catch

Spec == Init /\ [][Next]_vars

----------------------------------------------------------------------------
(* Properties *)

Built == pdfBuffer = "ok"
Decodes(dataUrl) == dataUrlToBuffer(dataUrl) # NULL
NoSignature == ~Decodes(payload.signatureDataUrl)
Considered == 1..Min(Len(payload.photos), MaxVisible)
FirstTwelve == [i \in Considered |-> payload.photos[i]]

\* C1: a request with no recipient (neither toEmail in the payload nor TO_EMAIL)
\* is answered 400 before buildPdfBuffer is started, and no mail is sent.
C1_RejectedBeforeBuild ==
  toEmail = "none" =>
    /\ pdfBuffer = "none"
    /\ mail = <<>>
    /\ responses = <<MissingRecipientResponse>>

\* C2: the caller is told ok only after the build resolved and sendMail
\* delivered; a rejected build or a failed sendMail is answered 500; sendMail is
\* called at most once; one response is written per request.
C2_NoPartialSuccess ==
  /\ Len(responses) <= 1
  /\ Len(mail) <= 1
  /\ pc = "done" <=> Len(responses) = 1
  /\ \A k \in DOMAIN responses :
       /\ responses[k].ok => (Built /\ mail = <<"delivered">> /\ responses[k].status = 200)
       /\ (pdfBuffer = "rejected" \/ mail = <<"failed">>) =>
             responses[k] = ServerErrorResponse

C2_Witness ==
  /\ pc = "done"
  /\ Built
  /\ mail = <<"failed">>
  /\ responses = <<ServerErrorResponse>>

\* C3: only the first 12 entries of photos are gone through: no cell is drawn
\* for entry 13 or later, and once the loop is over every entry among the first
\* 12 that decodes has its cell, whatever the other entries are.
C3_OnlyFirstTwelve ==
  /\ \A k \in DOMAIN out.cells : out.cells[k].i \in Considered
  /\ pc = "grid" => loop.i <= MaxVisible + 1
  /\ Built => {out.cells[k].i : k \in DOMAIN out.cells}
                = {i \in Considered : Decodes(payload.photos[i])}

C3_Witness ==
  /\ Built
  /\ Len(payload.photos) > MaxVisible
  /\ Decodes(payload.photos[MaxVisible + 1])
  /\ \E i \in Considered : ~Decodes(payload.photos[i])
  /\ Len(out.cells) = MaxVisible - 1

\* Where the notes heading was put, and whether heading and notes fit on page 1
NotesFitFirstPage ==
  /\ out.notes[1].page = 1
  /\ out.notes[1].y + (1 + payload.notesLines) * LineH <= PageH - Margin

\* C4 as stated: without photos and signature the document has one page
\* whatever the length of the text, and no image is placed.
C4_AlwaysOnePage ==
  (Built /\ payload.photos = <<>> /\ NoSignature) =>
    /\ doc.page = 1
    /\ out.images = 0
    /\ out.notes # <<>>

\* C4 amended: without photos and signature no image is placed and
\* buildPdfBuffer calls addPage itself never; the document has one page exactly
\* when the notes heading and text fit above the bottom margin of page 1.
C4_OnePageWhenTextFits ==
  (Built /\ payload.photos = <<>> /\ NoSignature) =>
    /\ out.images = 0
    /\ out.addPages = 0
    /\ out.sig = <<>> /\ out.heading = <<>> /\ out.cells = <<>>
    /\ out.notes # <<>>
    /\ doc.page = 1 <=> NotesFitFirstPage

C4_Witness ==
  /\ Built /\ payload.photos = <<>> /\ NoSignature
  /\ doc.page = 1
  /\ payload.notesLines > 1 /\ payload.leftExtra > 0

\* The row the next cell goes to, before the page test of line 174
NextRowY == IF loop.col = GridCols THEN loop.rowY + cellH + gap ELSE loop.rowY
LastCell(o) == o.cells[Len(o.cells)]

\* C5: a cell is drawn only where it fits above the bottom margin; when its row
\* would not fit, a page is added before the cell is drawn and the cell goes to
\* the top margin of the new page; otherwise it is drawn in its row on the
\* current page.
C5_RowBreaksPage ==
  [][(pc = "grid" /\ Len(out'.cells) > Len(out.cells)) =>
       /\ LastCell(out').y + cellH <= PageH - Margin
       /\ IF NextRowY + cellH > PageH - Margin
          THEN /\ LastCell(out').page = doc.page + 1
               /\ LastCell(out').y = Margin
               /\ LastCell(out').col = 0
               /\ out'.addPages = out.addPages + 1
          ELSE /\ LastCell(out').page = doc.page
               /\ LastCell(out').y = NextRowY
               /\ out'.addPages = out.addPages]_vars

\* The 4th row of the grid starts a page
C5_Witness ==
  /\ Len(out.cells) >= 10
  /\ out.cells[10].y = Margin
  /\ out.cells[10].page = out.cells[9].page + 1
  /\ out.cells[9].y + 2 * cellH + gap > PageH - Margin

\* C6: the Photos heading is written exactly when one of the first 12 photos
\* decodes.
C6_HeadingIffDecodedPhoto ==
  Built => (out.heading # <<>> <=> \E i \in Considered : Decodes(payload.photos[i]))

\* C7: every row holds at most 3 cells and the k-th cell of every row is at
\* x = anchor + k * (cellW + gap), the anchor being the x the grid began at.
C7_RowsStartAtLeftAnchor ==
  \A k \in DOMAIN out.cells :
    /\ out.cells[k].col \in 0..(GridCols - 1)
    /\ out.cells[k].x = out.gridStart[1].x + out.cells[k].col * (cellW + gap)

RECURSIVE GridLayout(_, _, _)
\* The loop of lines 167-188 run over the list ps from entry k on
GridLayout(s, ps, k) ==
  IF k > Len(ps) THEN s ELSE GridLayout(PhotoStep(s, k, ps[k]), ps, k + 1)

Places(cells) == [k \in DOMAIN cells |-> <<cells[k].page, cells[k].x, cells[k].y>>]
Decodable(ps) == SelectSeq(ps, Decodes)
Prefix(a, b) == Len(a) <= Len(b) /\ a = SubSeq(b, 1, Len(a))

\* The grid of a list, begun where the grid of this document began
GridOf(ps) ==
  GridLayout([doc |-> out.gridStart[1].doc, x |-> out.gridStart[1].x,
              rowY |-> out.gridStart[1].rowY, col |-> 0, cells |-> <<>>,
              images |-> 0, addPages |-> 0], ps, 1)

C9_SignatureFits ==
  \A k \in DOMAIN out.sig :
    /\ Decodes(payload.signatureDataUrl)
    /\ out.sig[k].y + sigH <= PageH - Margin

\* C10: the right column starts at startY; the notes heading is at the left
\* margin and not above the bottom of either column.
C10_ColumnsRealigned ==
  \A k \in DOMAIN out.notes :
    /\ out.rightColY = startY
    /\ out.notes[k].x = leftX
    /\ out.notes[k].y >= out.leftBottom
    /\ out.notes[k].y >= out.rightBottom

====
